---------------------------- MODULE Spec2Model ----------------------------
(***************************************************************************)
(* SysMonitor++ (src/sysmonitor.c): the CPU sampler, the per-process stat  *)
(* parser, the process census, the memory sampler and the driver (main,    *)
(* the menu, continuous monitoring and the SIGINT handler), as state       *)
(* machines.                                                               *)
(*                                                                         *)
(* Unsigned 64-bit values.  TLC's integers are 32 bits wide, so a value of *)
(* type unsigned long (long) is written as the integer x, |x| < 2^20,      *)
(* that is congruent to it modulo 2^64: x >= 0 stands for x and x < 0      *)
(* stands for 2^64 + x.  Addition and subtraction modulo 2^64 are then     *)
(* integer addition and subtraction, and a value is 0 exactly when its     *)
(* representative is 0.                                                    *)
(*                                                                         *)
(* Doubles.  A double is written [num, den, big] and stands for            *)
(* (num + big * 2^64) / den, den > 0.  (double)x of a representative       *)
(* x < 0 is exactly 2^64: the doubles in [2^63, 2^64] are 2048 apart.      *)
(***************************************************************************)
EXTENDS Integers, Sequences, FiniteSets

VARIABLES
    prev,        \* prev_user .. prev_softirq               (sysmonitor.c:110-111)
    first_run,   \* static int first_run                    (sysmonitor.c:112)
    logFile,     \* FILE *logFile: "NULL", "open", "closed" (sysmonitor.c:28)
    log,         \* the entries this run appended to syslog.txt
    out,         \* what the last sampler call printed on the terminal
    stat,        \* the kernel's cumulative CPU counters, as /proc/stat shows them
    cpu_src,     \* /proc/stat as the last getCPUUsage call found it
    call,        \* the last getCPUUsage call's use of calculateCPUUsage
    rec,         \* a /proc/[pid]/stat record given to readProcessStat
    rec_ret,     \* what readProcessStat returned for it
    proc,        \* the /proc directory as a census pass finds it
    census,      \* the last listTopProcesses call: its array and what it printed
    pass,        \* a listTopProcesses call in progress: its place in the loop
    meminfo,     \* /proc/meminfo as a getMemoryUsage call finds it
    mem_use,     \* the last getMemoryUsage call: what it computed and printed
    running,     \* volatile sig_atomic_t running           (sysmonitor.c:29)
    argv,        \* the command line, by the branch of main it selects
    pc,          \* where main is
    hs           \* where handleSignal is, "none" before SIGINT

(***************************************************************************)
(* Bounds of the model.                                                    *)
(***************************************************************************)
\* the seven counters of one /proc/stat snapshot add up to at most this
MaxJiffies == 2
\* a run of one sampler appends at most this many entries to the log
MaxLog == 3
\* a session stops calling samplers and modes when its log has this many
\* entries
MaxSession == 5

\* the state of main, displayMenu, continuousMonitor and handleSignal
driver_vars == <<running, argv, pc, hs>>
\* /proc lists at most this many entries beside "." and ".."
MaxEntries == 6

(***************************************************************************)
(* Doubles and unsigned arithmetic.                                        *)
(***************************************************************************)
Dbl(n, d) == [num |-> n, den |-> d, big |-> 0]

\* d < 0
DNeg(d) == d.big < 0 \/ (d.big = 0 /\ d.num < 0)

\* d = 0.0
DIsZero(d) == d.big = 0 /\ d.num = 0 /\ d.den > 0

\* d = 100.0
DIsHundred(d) == d.big = 0 /\ d.den > 0 /\ d.num = 100 * d.den

\* 0.0 <= d <= 100.0
DInPercentRange(d) == d.big = 0 /\ d.den > 0 /\ 0 <= d.num /\ d.num <= 100 * d.den

\* a < b on unsigned values
ULt(a, b) ==
    IF (a >= 0) = (b >= 0) THEN a < b ELSE a >= 0

(***************************************************************************)
(* writeLog                                                                *)
(***************************************************************************)
\* the log after writeLog(message): nothing is written when logFile is NULL
writeLog(lg, lf, message) ==
    IF lf = "NULL" THEN lg ELSE Append(lg, message)

(***************************************************************************)
(* /proc/stat                                                              *)
(***************************************************************************)
Word(w) == [t |-> "word", w |-> w, n |-> 0]
Num(n)  == [t |-> "num", w |-> "", n |-> n]

ZeroSnapshot ==
    [user |-> 0, nice |-> 0, system |-> 0, idle |-> 0, iowait |-> 0,
     irq |-> 0, softirq |-> 0]

\* /proc/stat as one call finds it: whether open() and read() succeed, whether
\* the text holds the aggregate line, and the integers that follow its tag
File(o, r, l, ints) == [open |-> o, read |-> r, line |-> l, ints |-> ints]

\* the integers of the aggregate line for a snapshot: the seven counters, then
\* the guest fields
LineOf(s) ==
    <<s.user, s.nice, s.system, s.idle, s.iowait, s.irq, s.softirq, 0, 0>>

\* what one call can find: the whole aggregate line, the line cut after k
\* of its integers, a text without the line, a file that cannot be read or
\* cannot be opened
CpuSources(s) ==
    { File(TRUE, TRUE, TRUE, LineOf(s)) }
    \cup { File(TRUE, TRUE, TRUE, SubSeq(LineOf(s), 1, k)) : k \in {0, 3, 6} }
    \cup { File(TRUE, TRUE, FALSE, LineOf(s)),
           File(FALSE, FALSE, FALSE, <<>>), File(TRUE, FALSE, FALSE, <<>>) }

\* the text read() leaves in the buffer, as tokens: the aggregate line when
\* there is one, then a per-core line
TextOf(f) ==
    (IF f.line THEN <<Word("cpu")>> \o [i \in 1..Len(f.ints) |-> Num(f.ints[i])]
               ELSE <<>>)
    \o <<Word("cpu0")>>
    \o (IF f.line THEN <<>> ELSE [i \in 1..Len(f.ints) |-> Num(f.ints[i])])

(***************************************************************************)
(* parseCPUStats                                                           *)
(***************************************************************************)
\* strstr(buffer, "cpu "): the first place the tag "cpu" stands, 0 for NULL
FindCpuTag(buffer) ==
    IF \E i \in 1..Len(buffer) : buffer[i] = Word("cpu")
    THEN CHOOSE i \in 1..Len(buffer) :
            /\ buffer[i] = Word("cpu")
            /\ \A j \in 1..(i - 1) : buffer[j] # Word("cpu")
    ELSE 0

\* sscanf's return value: the integers converted, in order, until the first
\* token that is no integer, the end of the text or the seventh conversion
RECURSIVE Scanned(_, _, _)
Scanned(buffer, at, want) ==
    IF want = 0 \/ at > Len(buffer) \/ buffer[at].t # "num"
    THEN 0
    ELSE 1 + Scanned(buffer, at + 1, want - 1)

parseCPUStats_SixSuffice(buffer) ==
    LET line   == FindCpuTag(buffer)
        parsed == IF line = 0 THEN 0 ELSE Scanned(buffer, line + 1, 7)
        val(k) == IF k <= parsed THEN buffer[line + k].n ELSE 0
    IN  IF line = 0 THEN [rc |-> -1, snap |-> ZeroSnapshot]
        ELSE IF parsed < 6 THEN [rc |-> -1, snap |-> ZeroSnapshot]
        ELSE [rc |-> 0,
              snap |-> [user |-> val(1), nice |-> val(2), system |-> val(3),
                        idle |-> val(4), iowait |-> val(5), irq |-> val(6),
                        softirq |-> val(7)]]

parseCPUStats(buffer) ==
    LET line   == FindCpuTag(buffer)
        parsed == IF line = 0 THEN 0 ELSE Scanned(buffer, line + 1, 7)
        val(k) == buffer[line + k].n
    IN  IF line = 0 THEN [rc |-> -1, snap |-> ZeroSnapshot]
        ELSE IF parsed < 7 THEN [rc |-> -1, snap |-> ZeroSnapshot]
        ELSE [rc |-> 0,
              snap |-> [user |-> val(1), nice |-> val(2), system |-> val(3),
                        idle |-> val(4), iowait |-> val(5), irq |-> val(6),
                        softirq |-> val(7)]]

(***************************************************************************)
(* calculateCPUUsage                                                       *)
(***************************************************************************)
MinusOne == Dbl(-1, 1)
ZeroPct  == Dbl(0, 1)

\* 100.0 * (1.0 - ((double)idle_delta / (double)total_delta)), total_delta # 0
UsageOf(idle_delta, total_delta) ==
    IF idle_delta >= 0 /\ total_delta > 0
        THEN Dbl(100 * (total_delta - idle_delta), total_delta)
    ELSE IF idle_delta < 0 /\ total_delta < 0
        THEN Dbl(0, 1)                \* 2^64 / 2^64 = 1.0
    ELSE IF idle_delta >= 0
        THEN Dbl(100, 1)              \* 1.0 - idle / 2^64 rounds to 1.0
    ELSE [num |-> 0, den |-> total_delta, big |-> -100]

TotalDelta(p, c) ==
    (c.user - p.user) + (c.nice - p.nice) + (c.system - p.system)
    + (c.idle - p.idle) + (c.iowait - p.iowait) + (c.irq - p.irq)
    + (c.softirq - p.softirq)

NaN == [num |-> 0, den |-> 0, big |-> 0]

\* as calculateCPUUsage, but the first call does not store its snapshot
calculateCPUUsage_WarmupNotStored(p, fr, c) ==
    IF fr # 0
    THEN [prev |-> p, first_run |-> 0, ret |-> MinusOne]
    ELSE LET idle_delta  == c.idle - p.idle
             total_delta == TotalDelta(p, c)
         IN  IF total_delta = 0
             THEN [prev |-> p, first_run |-> fr, ret |-> ZeroPct]
             ELSE [prev |-> c, first_run |-> fr,
                   ret |-> UsageOf(idle_delta, total_delta)]

\* as calculateCPUUsage, but without the test of total_delta: 0.0 / 0.0
calculateCPUUsage_NoZeroTest(p, fr, c) ==
    IF fr # 0
    THEN [prev |-> c, first_run |-> 0, ret |-> MinusOne]
    ELSE LET idle_delta  == c.idle - p.idle
             total_delta == TotalDelta(p, c)
         IN  [prev |-> c, first_run |-> fr,
              ret |-> IF total_delta = 0 THEN NaN
                      ELSE UsageOf(idle_delta, total_delta)]

\* the statics after the call and the value returned
calculateCPUUsage(p, fr, c) ==
    IF fr # 0
    THEN [prev |-> c, first_run |-> 0, ret |-> MinusOne]
    ELSE LET idle_delta  == c.idle - p.idle
             total_delta == TotalDelta(p, c)
         IN  IF total_delta = 0
             THEN [prev |-> p, first_run |-> fr, ret |-> ZeroPct]
             ELSE [prev |-> c, first_run |-> fr,
                   ret |-> UsageOf(idle_delta, total_delta)]

(***************************************************************************)
(* getCPUUsage                                                             *)
(***************************************************************************)
\* how the snapshot of one call compares with the snapshot of the call before:
\* whether no counter went down, and the idle and total differences
NoSince == [mono |-> FALSE, idle |-> 0, total |-> 0]

Since(a, b) ==
    [mono  |-> /\ a.user <= b.user /\ a.nice <= b.nice /\ a.system <= b.system
               /\ a.idle <= b.idle /\ a.iowait <= b.iowait /\ a.irq <= b.irq
               /\ a.softirq <= b.softirq,
     idle  |-> b.idle - a.idle,
     total |-> (b.user + b.nice + b.system + b.idle + b.iowait + b.irq + b.softirq)
               - (a.user + a.nice + a.system + a.idle + a.iowait + a.irq + a.softirq)]

NoCall ==
    [made |-> FALSE, n |-> 0, before |-> ZeroSnapshot, curr |-> ZeroSnapshot,
     ret |-> ZeroPct, since |-> NoSince]

Printed(kind, value) == [kind |-> kind, value |-> value]

getCPUUsage(src) ==
    LET parsed == parseCPUStats(TextOf(src))
        failed == ~src.open \/ ~src.read \/ parsed.rc # 0
        r      == calculateCPUUsage(prev, first_run, parsed.snap)
    IN  /\ cpu_src' = src
        /\ UNCHANGED <<logFile, stat, rec, rec_ret, proc, census, pass, meminfo, mem_use>>
        /\ IF failed
           THEN /\ out' = Printed("error", ZeroPct)
                /\ call' = [NoCall EXCEPT !.n = call.n, !.curr = call.curr]
                /\ UNCHANGED <<prev, first_run, log>>
           ELSE /\ prev' = r.prev
                /\ first_run' = r.first_run
                /\ call' = [made |-> TRUE, n |-> IF call.n < 2 THEN call.n + 1 ELSE 2,
                            before |-> prev, curr |-> parsed.snap, ret |-> r.ret,
                            since |-> IF call.n = 0 THEN NoSince
                                      ELSE Since(call.curr, parsed.snap)]
                /\ IF DNeg(r.ret)
                   THEN /\ out' = Printed("Initializing CPU monitoring", ZeroPct)
                        /\ log' = writeLog(log, logFile, "CPU monitoring initialized")
                   ELSE /\ out' = Printed("CPU Usage", r.ret)
                        /\ log' = writeLog(log, logFile, "CPU Usage")

(***************************************************************************)
(* Text.  A character is a one-character string; NUL ends a C string and   *)
(* LF is the newline.                                                      *)
(***************************************************************************)
NUL == "NUL"
LF  == "LF"

DigitChars == <<"0", "1", "2", "3", "4", "5", "6", "7", "8", "9">>

IsDigit(c) == \E d \in 1..10 : DigitChars[d] = c

DigitVal(c) == (CHOOSE d \in 1..10 : DigitChars[d] = c) - 1

\* the decimal text of n >= 0, as the kernel's %d and %lu print it
RECURSIVE Digits(_)
Digits(n) ==
    IF n < 10 THEN <<DigitChars[n + 1]>>
    ELSE Digits(n \div 10) \o <<DigitChars[(n % 10) + 1]>>

\* strchr(ptr, c) for c # NUL: the first place at or after ptr that holds c,
\* looking no further than the first NUL; 0 stands for NULL
strchr(mem, ptr, c) ==
    IF \E i \in ptr..Len(mem) :
          /\ mem[i] = c
          /\ \A j \in ptr..(i - 1) : mem[j] # c /\ mem[j] # NUL
    THEN CHOOSE i \in ptr..Len(mem) :
             /\ mem[i] = c
             /\ \A j \in ptr..(i - 1) : mem[j] # c /\ mem[j] # NUL
    ELSE 0

\* white space as sscanf skips it
RECURSIVE SkipSpace(_, _)
SkipSpace(mem, ptr) ==
    IF ptr <= Len(mem) /\ (mem[ptr] = " " \/ mem[ptr] = LF)
    THEN SkipSpace(mem, ptr + 1)
    ELSE ptr

\* the value of the digits from ptr on, after the value acc
RECURSIVE DigitRun(_, _, _)
DigitRun(mem, ptr, acc) ==
    IF ptr <= Len(mem) /\ IsDigit(mem[ptr])
    THEN DigitRun(mem, ptr + 1, 10 * acc + DigitVal(mem[ptr]))
    ELSE [val |-> acc, next |-> ptr]

\* one %lu conversion of sscanf at ptr: white space, an optional sign, digits;
\* a minus sign negates modulo 2^64
ScanUnsigned(mem, ptr) ==
    LET at     == SkipSpace(mem, ptr)
        signed == at <= Len(mem) /\ (mem[at] = "-" \/ mem[at] = "+")
        from   == IF signed THEN at + 1 ELSE at
        run    == DigitRun(mem, from, 0)
    IN  IF run.next = from
        THEN [ok |-> FALSE, val |-> 0, next |-> at]
        ELSE [ok |-> TRUE,
              val |-> IF signed /\ mem[at] = "-" THEN 0 - run.val ELSE run.val,
              next |-> run.next]

(***************************************************************************)
(* readProcessStat                                                         *)
(***************************************************************************)
\* char buffer[4096]
StatBufSize == 4096

\* a file of /proc: whether open() succeeds, whether read() succeeds, the text
ProcFile(o, r, d) == [open |-> o, read |-> r, data |-> d]

\* the buffer after read() and buffer[bytes_read] = '\0': the bytes read, the
\* NUL, and what the stack held behind it
BufferAfterRead(data, behind) ==
    LET bytes_read == IF Len(data) < StatBufSize THEN Len(data) ELSE StatBufSize - 1
    IN  SubSeq(data, 1, bytes_read) \o <<NUL>> \o behind

\* the loop that skips n fields: ptr after it, 0 when strchr returned NULL
RECURSIVE SkipFields(_, _, _)
SkipFields(mem, ptr, n) ==
    IF n = 0 THEN ptr
    ELSE LET sp == strchr(mem, ptr, " ")
         IN  IF sp = 0 THEN 0 ELSE SkipFields(mem, sp + 1, n - 1)

Rejected(over) == [rc |-> -1, utime |-> 0, stime |-> 0, over |-> over]

\* the fields after the anchor: ptr += 2, eleven fields skipped, two read
FieldsAfter(mem, anchor) ==
    LET nul  == strchr(mem, 1, NUL)
        ptr  == anchor + 2
        over == ptr > nul
        at14 == SkipFields(mem, ptr, 11)
        u    == ScanUnsigned(mem, at14)
        s    == ScanUnsigned(mem, u.next)
    IN  IF at14 = 0 THEN Rejected(over)
        ELSE IF ~u.ok \/ ~s.ok THEN Rejected(over)
        ELSE [rc |-> 0, utime |-> u.val, stime |-> s.val, over |-> over]

\* the value returned, *utime and *stime, and whether ptr was moved past the
\* NUL that ends the text read
readProcessStat(file, behind) ==
    IF ~file.open THEN Rejected(FALSE)
    ELSE IF ~file.read \/ Len(file.data) = 0 THEN Rejected(FALSE)
    ELSE LET mem    == BufferAfterRead(file.data, behind)
             anchor == strchr(mem, 1, ")")
         IN  IF anchor = 0 THEN Rejected(FALSE)
             ELSE FieldsAfter(mem, anchor)

(***************************************************************************)
(* /proc/[pid]/stat records.                                               *)
(***************************************************************************)
\* fields 3 to 17 of a record: state, ppid, pgrp, session, tty_nr, tpgid,
\* flags, minflt, cminflt, majflt, cmajflt, utime, stime, cutime, cstime
FieldsOf(utime, stime) ==
    <<<<"S">>, Digits(1), Digits(2), Digits(3), Digits(4), <<"-", "1">>,
      Digits(5), Digits(6), Digits(7), Digits(8), Digits(9),
      Digits(utime), Digits(stime), Digits(12), Digits(13)>>

RECURSIVE Joined(_)
Joined(fields) ==
    IF Len(fields) = 0 THEN <<>>
    ELSE <<" ">> \o Head(fields) \o Joined(Tail(fields))

\* the line the kernel prints: pid (comm) state ppid ...
RecordText(pid, comm, utime, stime) ==
    Digits(pid) \o <<" ", "(">> \o comm \o <<")">>
    \o Joined(FieldsOf(utime, stime)) \o <<LF>>

\* process names: plain, with a space, with a closing parenthesis, and
\* "my (weird) proc"
Comms ==
    { <<"s", "h">>,
      <<"a", " ", "b">>,
      <<"a", ")", "b">>,
      <<"a", ")", " ", "b">>,
      <<"m", "y", " ", "(", "w", "e", "i", "r", "d", ")", " ", "p", "r", "o", "c">> }

TickPairs == { <<0, 0>>, <<4, 6>>, <<14, 25>> }

\* what the stack can hold behind the text read: nothing, or the end of a
\* longer record that an earlier call read into the same buffer
Behinds ==
    { <<NUL>>,
      <<"3", " ", "4", " ", "-", "1", " ", "5", " ", "6", " ", "7", " ", "8",
        " ", "9", " ", "7", "1", " ", "7", "2", " ", "1", "2", " ", "1", "3",
        LF, NUL>> }

\* a record as one call finds it: the line of process 42 cut after `cut`
\* characters (the whole line when cut is its length)
StatRecords ==
    UNION { { [comm |-> c, utime |-> t[1], stime |-> t[2], cut |-> k,
               open |-> TRUE, read |-> TRUE, behind |-> b] :
                 k \in 0..Len(RecordText(42, c, t[1], t[2])), b \in Behinds } :
            c \in Comms, t \in TickPairs }
    \cup { [comm |-> <<"s", "h">>, utime |-> 4, stime |-> 6, cut |-> 0,
            open |-> o, read |-> FALSE, behind |-> <<NUL>>] : o \in BOOLEAN }

RecordFile(r) ==
    ProcFile(r.open, r.read,
             SubSeq(RecordText(42, r.comm, r.utime, r.stime), 1, r.cut))

WholeRecord(r) ==
    r.open /\ r.read /\ r.cut = Len(RecordText(42, r.comm, r.utime, r.stime))

NotRead == [rc |-> 1, utime |-> 0, stime |-> 0, over |-> FALSE]

\* readProcessStat is called for the record
ReadStat ==
    /\ rec_ret = NotRead
    /\ rec_ret' = readProcessStat(RecordFile(rec), rec.behind)
    /\ UNCHANGED <<prev, first_run, logFile, log, out, stat, cpu_src, call, rec, proc, census, pass, meminfo, mem_use>>
    /\ UNCHANGED driver_vars

(***************************************************************************)
(* The process census: isNumeric, readProcessName, compareProcesses,       *)
(* listTopProcesses.                                                       *)
(***************************************************************************)
\* struct ProcessInfo processes[1024]
MaxProcesses == 1024
\* char name[256]
NameSize == 256
\* display_count = (process_count < 5) ? process_count : 5
DisplayMax == 5

\* str is the text before the NUL
isNumeric(str) ==
    /\ Len(str) > 0
    /\ \A i \in 1..Len(str) : IsDigit(str[i])

atoi(str) == ScanUnsigned(str, 1).val

Unknown == <<"[", "u", "n", "k", "n", "o", "w", "n", "]">>

\* the value returned and the name left in the caller's buffer
readProcessName(file) ==
    IF ~file.open THEN [rc |-> -1, name |-> <<>>]
    ELSE IF ~file.read \/ Len(file.data) = 0 THEN [rc |-> -1, name |-> <<>>]
    ELSE LET bytes_read == IF Len(file.data) < NameSize THEN Len(file.data)
                                                        ELSE NameSize - 1
             name       == SubSeq(file.data, 1, bytes_read)
         IN  [rc   |-> 0,
              name |-> IF name[bytes_read] = LF
                       THEN SubSeq(name, 1, bytes_read - 1) ELSE name]

\* (100.0 * total_time) / max_time, for values below 2^63 and max_time > 0
PercentOf_NotTimesHundred(total_time, max_time) == Dbl(total_time, max_time)

PercentOf(total_time, max_time) == Dbl(100 * total_time, max_time)

\* %.2f of a double that is not negative: its hundredths, ties to even;
\* -1 stands for the text printed for 0.0 / 0.0
Hundredths(d) ==
    IF d.den = 0 THEN -1
    ELSE LET q == (100 * d.num) \div d.den
             r == (100 * d.num) % d.den
         IN  IF 2 * r > d.den \/ (2 * r = d.den /\ q % 2 = 1) THEN q + 1 ELSE q

\* as compareProcesses, with the two signs exchanged: ascending order
compareProcesses_Ascending(a, b) ==
    IF ULt(a.total_time, b.total_time) THEN -1
    ELSE IF ULt(b.total_time, a.total_time) THEN 1
    ELSE 0

compareProcesses(a, b) ==
    IF ULt(a.total_time, b.total_time) THEN 1
    ELSE IF ULt(b.total_time, a.total_time) THEN -1
    ELSE 0

Without(arr, i) == SubSeq(arr, 1, i - 1) \o SubSeq(arr, i + 1, Len(arr))

\* every order of the array in which no element compares greater than a
\* later one
RECURSIVE SortedOrders(_)
SortedOrders(arr) ==
    IF Len(arr) = 0 THEN { <<>> }
    ELSE UNION { { <<arr[i]>> \o rest : rest \in SortedOrders(Without(arr, i)) } :
                   i \in { j \in 1..Len(arr) :
                             \A k \in 1..Len(arr) :
                                 compareProcesses(arr[j], arr[k]) <= 0 } }

\* no two elements compare equal
NoTies(arr) ==
    \A i \in 1..Len(arr), j \in 1..Len(arr) :
        i # j => compareProcesses(arr[i], arr[j]) # 0

\* the one sorted order of an array without ties: each element at the place
\* after the elements that compare less than it
OneOrder(arr) ==
    LET n     == Len(arr)
        place == [i \in 1..n |->
                    1 + Cardinality({ j \in 1..n :
                                        compareProcesses(arr[j], arr[i]) < 0 })]
                 \o <<>>
        from  == [r \in 1..n |-> CHOOSE i \in 1..n : place[i] = r] \o <<>>
    IN  [r \in 1..n |-> arr[from[r]]]

\* qsort(arr, n, size, compareProcesses): the orders of the array that the
\* comparison accepts; the order of elements that compare equal is
\* unspecified
qsort(arr) ==
    IF NoTies(arr) THEN { OneOrder(arr) } ELSE SortedOrders(arr)

\* the kinds of directory entry of the small tables below
Kinds ==
    <<"busy10", "vanished", "busy50", "noparen", "idle", "self", "short",
      "busy30", "unreadable">>

\* the process identifier of the i-th entry
PidAt(i) == 6 + i

\* utime and stime of a process of kind k
TicksOf(k) ==
    CASE k = "busy50" -> [utime |-> 30, stime |-> 20]
      [] k = "busy30" -> [utime |-> 10, stime |-> 20]
      [] k = "busy10" -> [utime |-> 4, stime |-> 6]
      [] k = "hog"    -> [utime |-> 3000, stime |-> 2000]
      [] OTHER        -> [utime |-> 0, stime |-> 0]

\* utime and stime of the i-th entry: the processes of a crowd have used the
\* processor for different times, the i-th for i ticks
TicksAt(i, k) ==
    IF k = "crowd" THEN [utime |-> i, stime |-> 0] ELSE TicksOf(k)

\* /proc/[pid]/stat of the i-th entry: a process that is gone cannot be
\* opened, "unreadable" fails in read(), "noparen" ends inside the name and
\* "short" ends after field 14
StatFileOf(i, k) ==
    LET whole == RecordText(PidAt(i), <<"s", "h">>, TicksAt(i, k).utime, TicksAt(i, k).stime)
    IN  CASE k = "vanished"   -> ProcFile(FALSE, FALSE, <<>>)
          [] k = "unreadable" -> ProcFile(TRUE, FALSE, <<>>)
          [] k = "noparen"    -> ProcFile(TRUE, TRUE, SubSeq(whole, 1, strchr(whole, 1, ")") - 1))
          [] k = "short"      -> ProcFile(TRUE, TRUE,
                                          Digits(PidAt(i)) \o <<" ", "(", "s", "h", ")">>
                                          \o Joined(SubSeq(FieldsOf(4, 6), 1, 12)))
          [] OTHER            -> ProcFile(TRUE, TRUE, whole)

\* /proc/[pid]/comm of the i-th entry; the one of a "busy30" process cannot
\* be opened
CommFileOf(i, k) ==
    IF k = "busy30" THEN ProcFile(FALSE, FALSE, <<>>)
    ELSE ProcFile(TRUE, TRUE, <<"s", "h", LF>>)

DirEntry(i, k) ==
    [d_name |-> IF k = "self" THEN <<"s", "e", "l", "f">> ELSE Digits(PidAt(i)),
     stat   |-> StatFileOf(i, k),
     comm   |-> CommFileOf(i, k)]

Dot == [d_name |-> <<".">>, stat |-> ProcFile(FALSE, FALSE, <<>>),
        comm |-> ProcFile(FALSE, FALSE, <<>>)]

DotDot == [Dot EXCEPT !.d_name = <<".", ".">>]

\* what the n-th call of readdir returns
ReaddirAt(listing, n) ==
    IF n = 1 THEN Dot
    ELSE IF n = 2 THEN DotDot
    ELSE DirEntry(n - 2, listing[n - 2])

\* what readdir returns, call after call
DirEntries(listing) ==
    [n \in 1..(Len(listing) + 2) |-> ReaddirAt(listing, n)]

\* the listings of n entries, kind by kind in the order of Kinds from the
\* kind numbered `from` on
RECURSIVE Listings(_, _)
Listings(n, from) ==
    IF n = 0 THEN { <<>> }
    ELSE UNION { { <<Kinds[k]>> \o l : l \in Listings(n - 1, k) } :
                   k \in from..Len(Kinds) }

ProcTables ==
    { [opendir |-> TRUE, listing |-> l] :
        l \in UNION { Listings(n, 1) : n \in 0..MaxEntries } }
    \cup { [opendir |-> FALSE, listing |-> l] :
             l \in UNION { Listings(n, 1) : n \in 0..1 } }

\* what the slots of the array processes hold before anything is stored:
\* zeroes, or the percentages that an earlier call left on the stack
StackImages ==
    { [i \in 1..MaxProcesses |-> ZeroPct],
      [i \in 1..MaxProcesses |-> Dbl(75, 2 * i)] }

\* as Enumerate, but the loop ends at the first stat read that fails
RECURSIVE Enumerate_StopAtFailure(_, _, _, _)
Enumerate_StopAtFailure(entries, i, processes, stack) ==
    IF i > Len(entries) \/ Len(processes) >= MaxProcesses THEN processes
    ELSE LET entry == entries[i]
             st    == readProcessStat(entry.stat, <<NUL>>)
             nm    == readProcessName(entry.comm)
         IN  IF ~isNumeric(entry.d_name)
             THEN Enumerate_StopAtFailure(entries, i + 1, processes, stack)
             ELSE IF st.rc # 0
             THEN processes
             ELSE Enumerate_StopAtFailure(entries, i + 1,
                      Append(processes,
                             [pid         |-> atoi(entry.d_name),
                              name        |-> IF nm.rc # 0 THEN Unknown ELSE nm.name,
                              utime       |-> st.utime,
                              stime       |-> st.stime,
                              total_time  |-> st.utime + st.stime,
                              cpu_percent |-> stack[Len(processes) + 1]]),
                      stack)

\* the body of the while loop for one entry: the array processes after it;
\* cpu_percent is not assigned
LoopBody(entry, processes, stack) ==
    LET st == readProcessStat(entry.stat, <<NUL>>)
        nm == readProcessName(entry.comm)
    IN  IF ~isNumeric(entry.d_name) THEN processes
        ELSE IF st.rc # 0 THEN processes
        ELSE Append(processes,
                    [pid         |-> atoi(entry.d_name),
                     name        |-> IF nm.rc # 0 THEN Unknown ELSE nm.name,
                     utime       |-> st.utime,
                     stime       |-> st.stime,
                     total_time  |-> st.utime + st.stime,
                     cpu_percent |-> stack[Len(processes) + 1]])

\* the while loop over readdir, from the i-th entry on: the array processes
\* when it ends
RECURSIVE Enumerate(_, _, _, _)
Enumerate(entries, i, processes, stack) ==
    IF i > Len(entries) \/ Len(processes) >= MaxProcesses THEN processes
    ELSE Enumerate(entries, i + 1, LoopBody(entries[i], processes, stack), stack)

\* as PercentDivisors, without the test of max_time
PercentDivisors_NoGuard(processes) == { processes[1].total_time }

\* what the percentage step divides by: max_time, when max_time > 0 lets the
\* loop run
PercentDivisors(processes) ==
    LET max_time == processes[1].total_time
    IN  IF max_time # 0 THEN { max_time } ELSE {}

\* the percentages relative to the top process
WithPercent(processes) ==
    LET max_time == processes[1].total_time
    IN  IF PercentDivisors(processes) # {}
        THEN [i \in 1..Len(processes) |->
                [processes[i] EXCEPT
                   !.cpu_percent = PercentOf(processes[i].total_time, max_time)]]
        ELSE processes

\* a line of the table printed
Row(p) ==
    [pid |-> p.pid, name |-> p.name, total_time |-> p.total_time,
     percent |-> Hundredths(p.cpu_percent)]

NoCensus ==
    [made |-> FALSE, opened |-> FALSE, process_count |-> 0, processes |-> <<>>,
     display_count |-> 0, shown |-> <<>>, sorted |-> FALSE, divisors |-> {}]

\* opendir failed
ReportNoDirectory ==
    /\ census' = [NoCensus EXCEPT !.made = TRUE]
    /\ out' = Printed("Error: Failed to open /proc directory", ZeroPct)
    /\ log' = writeLog(log, logFile, "Error: Failed to open /proc directory")

\* listTopProcesses from closedir on, the loop having left the array scanned
Report(scanned) ==
    IF Len(scanned) = 0
    THEN /\ census' = [NoCensus EXCEPT !.made = TRUE, !.opened = TRUE]
         /\ out' = Printed("No processes found.", ZeroPct)
         /\ log' = writeLog(log, logFile, "No processes found")
    ELSE \E sorted \in qsort(scanned) :
             LET processes     == WithPercent(sorted)
                 process_count == Len(processes)
                 display_count == IF process_count < DisplayMax
                                  THEN process_count ELSE DisplayMax
             IN  /\ census' =
                      [made          |-> TRUE,
                       opened        |-> TRUE,
                       process_count |-> process_count,
                       processes     |-> processes,
                       display_count |-> display_count,
                       shown         |-> [i \in 1..display_count |->
                                            Row(processes[i])],
                       sorted        |-> TRUE,
                       divisors      |-> PercentDivisors(sorted)]
                 /\ out' = Printed("PID Process Name CPU Time Relative %", ZeroPct)
                 /\ log' = writeLog(log, logFile, "Top 5 processes displayed")

listTopProcesses ==
    \E stack \in StackImages :
        LET scanned == Enumerate(DirEntries(proc.listing), 1, <<>>, stack)
        IN  /\ UNCHANGED <<prev, first_run, logFile, stat, cpu_src, call, rec,
                           rec_ret, proc, pass, meminfo, mem_use>>
            /\ IF ~proc.opendir THEN ReportNoDirectory ELSE Report(scanned)

(***************************************************************************)
(* listTopProcesses, one call of readdir at a time.                        *)
(***************************************************************************)
NoPass == [pc |-> "idle", pos |-> 0, processes |-> <<>>, stack |-> <<>>]

census_fixed ==
    <<prev, first_run, logFile, stat, cpu_src, call, rec, rec_ret, proc, meminfo, mem_use>>

\* from the call to the first readdir
CensusOpen ==
    /\ pass.pc = "idle"
    /\ UNCHANGED census_fixed
    /\ UNCHANGED driver_vars
    /\ IF ~proc.opendir
       THEN /\ ReportNoDirectory
            /\ pass' = [NoPass EXCEPT !.pc = "done"]
       ELSE /\ \E stack \in StackImages :
                   pass' = [pc |-> "loop", pos |-> 1, processes |-> <<>>,
                            stack |-> stack]
            /\ UNCHANGED <<census, out, log>>

\* readdir returns an entry and process_count < 1024: the body of the loop
CensusReaddir ==
    /\ pass.pc = "loop"
    /\ pass.pos <= Len(proc.listing) + 2
    /\ Len(pass.processes) < MaxProcesses
    /\ pass' = [pass EXCEPT
                  !.pos = pass.pos + 1,
                  !.processes = LoopBody(ReaddirAt(proc.listing, pass.pos),
                                         pass.processes, pass.stack)]
    /\ UNCHANGED census_fixed
    /\ UNCHANGED driver_vars
    /\ UNCHANGED <<census, out, log>>

\* the loop ends: closedir and the rest of listTopProcesses
CensusRank ==
    /\ pass.pc = "loop"
    /\ ~(pass.pos <= Len(proc.listing) + 2 /\ Len(pass.processes) < MaxProcesses)
    /\ Report(pass.processes)
    /\ pass' = [NoPass EXCEPT !.pc = "done"]
    /\ UNCHANGED census_fixed
    /\ UNCHANGED driver_vars

\* /proc with more processes than the array holds, with exactly as many, with
\* one, and /proc that cannot be opened
CrowdTables ==
    { [opendir |-> TRUE,
       listing |-> [i \in 1..MaxProcesses |-> "crowd"] \o <<"hog">>],
      [opendir |-> TRUE,
       listing |-> [i \in 1..(MaxProcesses - 1) |-> "crowd"] \o <<"hog">>],
      [opendir |-> TRUE, listing |-> <<"hog">>],
      [opendir |-> FALSE, listing |-> <<>>] }

(***************************************************************************)
(* getMemoryUsage                                                          *)
(***************************************************************************)
\* char buffer[2048]
MemBufSize == 2048

MemTotalTag == <<"M", "e", "m", "T", "o", "t", "a", "l", ":">>
MemFreeTag  == <<"M", "e", "m", "F", "r", "e", "e", ":">>

\* pat is found in mem at the place at
StartsAt(mem, at, pat) ==
    /\ at + Len(pat) - 1 <= Len(mem)
    /\ \A k \in 1..Len(pat) : mem[at + k - 1] = pat[k]

\* strstr(mem, pat): the first place of pat in the text, 0 for NULL
strstr(mem, pat) ==
    LET nul  == strchr(mem, 1, NUL)
        hits == { at \in 1..nul : StartsAt(mem, at, pat) }
    IN  IF hits = {} THEN 0
        ELSE CHOOSE at \in hits : \A h \in hits : at <= h

\* strtol(ptr, NULL, 10): white space, an optional sign, digits; 0 when there
\* is no digit
strtol(mem, ptr) ==
    LET s == ScanUnsigned(mem, ptr)
    IN  IF s.ok THEN s.val ELSE 0

\* a / b of C for b > 0: the quotient truncated towards zero
TruncDiv(a, b) == IF a >= 0 THEN a \div b ELSE 0 - ((0 - a) \div b)

\* %.1f of a double: its tenths, ties to even
Tenths(d) ==
    LET n == IF d.num < 0 THEN 0 - d.num ELSE d.num
        q == (10 * n) \div d.den
        r == (10 * n) % d.den
        m == IF 2 * r > d.den \/ (2 * r = d.den /\ q % 2 = 1) THEN q + 1 ELSE q
    IN  IF d.num < 0 THEN 0 - m ELSE m

\* /proc/meminfo: whether open() and read() succeed, MemTotal and MemFree in
\* kB (-1: the line is missing), and whether MemFree comes first
MemFile(o, r, total, free, swapped) ==
    [open |-> o, read |-> r, total |-> total, free |-> free, swapped |-> swapped]

MemLine(tag, kB) ==
    IF kB < 0 THEN <<>>
    ELSE tag \o <<" ", " ", " ">> \o Digits(kB) \o <<" ", "k", "B", LF>>

MemText(f) ==
    LET total == MemLine(MemTotalTag, f.total)
        free  == MemLine(MemFreeTag, f.free)
        other == MemLine(<<"M", "e", "m", "A", "v", "a", "i", "l", "a", "b", "l", "e", ":">>, 4096)
                 \o MemLine(<<"B", "u", "f", "f", "e", "r", "s", ":">>, 77)
    IN  IF f.swapped THEN other \o free \o total ELSE total \o free \o other

\* the buffer after read() and buffer[bytesRead] = '\0'
MemBuffer(data) ==
    SubSeq(data, 1, IF Len(data) < MemBufSize THEN Len(data) ELSE MemBufSize - 1)
    \o <<NUL>>

\* as MemoryOf, but Used is computed in kB and converted afterwards
MemoryOf_UsedFromKB(buffer) ==
    LET totalPtr    == strstr(buffer, MemTotalTag)
        freePtr     == strstr(buffer, MemFreeTag)
        memTotal_kB == IF totalPtr # 0 THEN strtol(buffer, totalPtr + 9) ELSE 0
        memFree_kB  == IF freePtr # 0 THEN strtol(buffer, freePtr + 8) ELSE 0
        memTotal_MB == TruncDiv(memTotal_kB, 1024)
        memFree_MB  == TruncDiv(memFree_kB, 1024)
        memUsed_MB  == TruncDiv(memTotal_kB - memFree_kB, 1024)
    IN  [total_mb |-> memTotal_MB, used_mb |-> memUsed_MB, free_mb |-> memFree_MB,
         percent  |-> IF memTotal_MB > 0 THEN Dbl(100 * memUsed_MB, memTotal_MB)
                      ELSE ZeroPct,
         divisors |-> IF memTotal_MB > 0 THEN { memTotal_MB } ELSE {}]

\* as MemoryOf, but a missing MemFree line counts as all memory free
MemoryOf_MissingFreeIsTotal(buffer) ==
    LET totalPtr    == strstr(buffer, MemTotalTag)
        freePtr     == strstr(buffer, MemFreeTag)
        memTotal_kB == IF totalPtr # 0 THEN strtol(buffer, totalPtr + 9) ELSE 0
        memFree_kB  == IF freePtr # 0 THEN strtol(buffer, freePtr + 8) ELSE memTotal_kB
        memTotal_MB == TruncDiv(memTotal_kB, 1024)
        memFree_MB  == TruncDiv(memFree_kB, 1024)
        memUsed_MB  == memTotal_MB - memFree_MB
    IN  [total_mb |-> memTotal_MB, used_mb |-> memUsed_MB, free_mb |-> memFree_MB,
         percent  |-> IF memTotal_MB > 0 THEN Dbl(100 * memUsed_MB, memTotal_MB)
                      ELSE ZeroPct,
         divisors |-> IF memTotal_MB > 0 THEN { memTotal_MB } ELSE {}]

\* steps 3 and 4 of getMemoryUsage: the two fields parsed, the megabytes and
\* ((double)memUsed_MB / memTotal_MB) * 100.0, with what the division divides by
MemoryOf(buffer) ==
    LET totalPtr    == strstr(buffer, MemTotalTag)
        freePtr     == strstr(buffer, MemFreeTag)
        memTotal_kB == IF totalPtr # 0 THEN strtol(buffer, totalPtr + 9) ELSE 0
        memFree_kB  == IF freePtr # 0 THEN strtol(buffer, freePtr + 8) ELSE 0
        memTotal_MB == TruncDiv(memTotal_kB, 1024)
        memFree_MB  == TruncDiv(memFree_kB, 1024)
        memUsed_MB  == memTotal_MB - memFree_MB
    IN  [total_mb |-> memTotal_MB, used_mb |-> memUsed_MB, free_mb |-> memFree_MB,
         percent  |-> IF memTotal_MB > 0 THEN Dbl(100 * memUsed_MB, memTotal_MB)
                      ELSE ZeroPct,
         divisors |-> IF memTotal_MB > 0 THEN { memTotal_MB } ELSE {}]

NoMem ==
    [made |-> FALSE, failed |-> FALSE, total_mb |-> 0, used_mb |-> 0, free_mb |-> 0,
     percent |-> ZeroPct, tenths |-> 0, divisors |-> {}]

getMemoryUsage ==
    /\ UNCHANGED <<prev, first_run, logFile, stat, cpu_src, call, rec, rec_ret,
                   proc, census, pass, meminfo>>
    /\ IF ~meminfo.open
       THEN /\ mem_use' = [NoMem EXCEPT !.made = TRUE, !.failed = TRUE]
            /\ out' = Printed("Error opening /proc/meminfo", ZeroPct)
            /\ UNCHANGED log
       ELSE IF ~meminfo.read
       THEN /\ mem_use' = [NoMem EXCEPT !.made = TRUE, !.failed = TRUE]
            /\ out' = Printed("Error reading /proc/meminfo", ZeroPct)
            /\ UNCHANGED log
       ELSE LET m == MemoryOf(MemBuffer(MemText(meminfo)))
            IN  /\ mem_use' = [made |-> TRUE, failed |-> FALSE,
                           total_mb |-> m.total_mb, used_mb |-> m.used_mb,
                           free_mb |-> m.free_mb, percent |-> m.percent,
                           tenths |-> Tenths(m.percent), divisors |-> m.divisors]
                /\ out' = Printed("Memory Usage", m.percent)
                /\ log' = writeLog(log, logFile, "Memory")

\* the sizes tried, in kB
MemSizes == { 0, 512, 1023, 1024, 3000, 8388608, 16777216 }

MemFiles ==
    { MemFile(TRUE, TRUE, t, f, sw) :
        t \in MemSizes \cup {-1}, f \in MemSizes \cup {-1}, sw \in BOOLEAN }
    \cup { MemFile(FALSE, FALSE, -1, -1, FALSE), MemFile(TRUE, FALSE, -1, -1, FALSE) }

(***************************************************************************)
(* The kernel's side of /proc/stat.                                        *)
(***************************************************************************)
Jiffies(s) == s.user + s.nice + s.system + s.idle + s.iowait + s.irq + s.softirq

sampler_vars ==
    <<prev, first_run, logFile, log, out, cpu_src, call, rec, rec_ret, proc, census,
      pass, meminfo, mem_use, running, argv, pc, hs>>

\* one jiffy is accounted to one of the seven counters
Tick ==
    /\ Jiffies(stat) < MaxJiffies
    /\ \E f \in {"user", "nice", "system", "idle", "iowait", "irq", "softirq"} :
           stat' = [stat EXCEPT ![f] = @ + 1]
    /\ UNCHANGED sampler_vars

\* the kernel takes a jiffy back from iowait (proc(5): the value may decrease)
IowaitDrop ==
    /\ stat.iowait > 0
    /\ stat' = [stat EXCEPT !.iowait = @ - 1]
    /\ UNCHANGED sampler_vars

vars ==
    <<prev, first_run, logFile, log, out, stat, cpu_src, call, rec, rec_ret, proc,
      census, pass, meminfo, mem_use, running, argv, pc, hs>>

\* the program after main has opened the log, before any sampler call
InitProgram ==
    /\ prev = ZeroSnapshot
    /\ first_run = 1
    /\ logFile = "open"
    /\ log = <<>>
    /\ out = Printed("nothing", ZeroPct)
    /\ cpu_src = File(FALSE, FALSE, FALSE, <<>>)
    /\ call = NoCall
    /\ rec_ret = NotRead
    /\ census = NoCensus
    /\ pass = NoPass
    /\ mem_use = NoMem
    /\ running = 1
    /\ argv = "none"
    /\ pc = "sampler"
    /\ hs = "none"

InitCpu ==
    /\ InitProgram
    /\ stat = ZeroSnapshot
    /\ rec = CHOOSE r \in StatRecords : ~r.open
    /\ proc = [opendir |-> FALSE, listing |-> <<>>]
    /\ meminfo = MemFile(FALSE, FALSE, -1, -1, FALSE)

InitStat ==
    /\ InitProgram
    /\ stat = ZeroSnapshot
    /\ rec \in StatRecords
    /\ proc = [opendir |-> FALSE, listing |-> <<>>]
    /\ meminfo = MemFile(FALSE, FALSE, -1, -1, FALSE)

NextStat == ReadStat

SpecStat == InitStat /\ [][NextStat]_vars

InitCensus ==
    /\ InitProgram
    /\ stat = ZeroSnapshot
    /\ rec = CHOOSE r \in StatRecords : ~r.open
    /\ proc \in ProcTables
    /\ meminfo = MemFile(FALSE, FALSE, -1, -1, FALSE)

\* one pass over each table
NextCensus == ~census.made /\ listTopProcesses /\ UNCHANGED driver_vars

SpecCensus == InitCensus /\ [][NextCensus]_vars

InitCrowd ==
    /\ InitProgram
    /\ stat = ZeroSnapshot
    /\ rec = CHOOSE r \in StatRecords : ~r.open
    /\ proc \in CrowdTables
    /\ meminfo = MemFile(FALSE, FALSE, -1, -1, FALSE)

NextCrowd == CensusOpen \/ CensusReaddir \/ CensusRank

SpecCrowd == InitCrowd /\ [][NextCrowd]_vars

InitMem ==
    /\ InitProgram
    /\ stat = ZeroSnapshot
    /\ rec = CHOOSE r \in StatRecords : ~r.open
    /\ proc = [opendir |-> FALSE, listing |-> <<>>]
    /\ meminfo \in MemFiles

NextMem == Len(log) < MaxLog /\ getMemoryUsage /\ UNCHANGED driver_vars

SpecMem == InitMem /\ [][NextMem]_vars

NextCpu ==
    \/ Tick
    \/ IowaitDrop
    \/ \E src \in CpuSources(stat) :
           Len(log) < MaxLog /\ getCPUUsage(src) /\ UNCHANGED driver_vars

SpecCpu == InitCpu /\ [][NextCpu]_vars

(***************************************************************************)
(* The driver: main, displayMenu, continuousMonitor and handleSignal.      *)
(* pc is the statement main stands before, in main itself or in the        *)
(* function it called; hs is the statement handleSignal has completed.     *)
(* While the handler runs main does not advance, and the handler never     *)
(* returns.  logFile is "NULL", "open", or "closed" when the pointer is    *)
(* left dangling by fclose.                                                *)
(***************************************************************************)
\* what the samplers own
core_vars ==
    <<prev, first_run, stat, cpu_src, call, rec, rec_ret, proc, census, pass,
      meminfo, mem_use>>

\* the command lines, one for each branch of main
Modes ==
    {"menu", "help", "cpu", "mem", "proc", "badmode", "cont", "badinterval",
     "invalid"}

\* the statement main's if-chain selects
ModeEntry(a) ==
    CASE a = "menu"        -> "menu"
      [] a = "help"        -> "help"
      [] a = "cpu"         -> "cpu1"
      [] a = "mem"         -> "mem1"
      [] a = "proc"        -> "proc1"
      [] a = "badmode"     -> "badmode"
      [] a = "cont"        -> "cm_start"
      [] a = "badinterval" -> "badinterval"
      [] OTHER             -> "invalid"

\* what the branches that call no sampler print
MessageOf(at) ==
    CASE at = "help"        -> "Usage: ./sysmonitor [OPTIONS]"
      [] at = "badmode"     -> "Error: Invalid Parameter. Use -m [cpu|mem|proc]"
      [] at = "badinterval" -> "Error: interval must be a positive integer"
      [] OTHER              -> "Invalid option: Use -h for help."

\* what a sampler printed when it gave up
FailureKinds ==
    {"error", "Error opening /proc/meminfo", "Error reading /proc/meminfo",
     "Error: Failed to open /proc directory", "No processes found."}

\* as AfterCall, but a sampler that failed ends the process
AfterCall_ExitOnFailure(at, printed) ==
    IF printed.kind \in FailureKinds THEN "exited"
    ELSE CASE at = "cpu1"    -> "sleep1"
           [] at = "cm_cpu"  -> "cm_mem"
           [] at = "cm_mem"  -> "cm_proc"
           [] at = "cm_proc" -> "cm_sleep"
           [] at \in {"menu_cpu", "menu_mem", "menu_proc"} -> "menu"
           [] OTHER          -> "end"

\* the statement after a sampler call made at `at`: the samplers return
\* void, and no caller looks at what they printed
AfterCall(at, printed) ==
    CASE at = "cpu1"    -> "sleep1"
      [] at = "cm_cpu"  -> "cm_mem"
      [] at = "cm_mem"  -> "cm_proc"
      [] at = "cm_proc" -> "cm_sleep"
      [] at \in {"menu_cpu", "menu_mem", "menu_proc"} -> "menu"
      [] OTHER          -> "end"

\* what a call of getCPUUsage made by the driver finds: the aggregate line,
\* or a file that cannot be opened
MainCpuSources ==
    { File(TRUE, TRUE, TRUE, LineOf(stat)), File(FALSE, FALSE, FALSE, <<>>) }

\* main is running: the handler has not been entered and the process lives
InMain == hs = "none" /\ pc \notin {"done", "exited", "crashed"}

\* main, line 613: signal(SIGINT, handleSignal)
Install ==
    /\ InMain /\ pc = "start"
    /\ pc' = "fopen"
    /\ UNCHANGED <<logFile, log, out, running, argv, hs>>
    /\ UNCHANGED core_vars

\* main, lines 615-620: the log is opened for appending, or is not
Fopen ==
    /\ InMain /\ pc = "fopen"
    /\ \E opened \in BOOLEAN :
          IF opened
          THEN /\ logFile' = "open"
               /\ log' = writeLog(log, "open", "Session started")
               /\ out' = out
          ELSE /\ logFile' = "NULL"
               /\ log' = log
               /\ out' = Printed("Warning: Could not open syslog.txt", ZeroPct)
    /\ pc' = ModeEntry(argv)
    /\ UNCHANGED <<running, argv, hs>>
    /\ UNCHANGED core_vars

\* displayHelp and the three error messages of main
Message ==
    /\ InMain /\ pc \in {"help", "badmode", "badinterval", "invalid"}
    /\ out' = Printed(MessageOf(pc), ZeroPct)
    /\ pc' = "end"
    /\ UNCHANGED <<logFile, log, running, argv, hs>>
    /\ UNCHANGED core_vars

CallCpu ==
    /\ InMain /\ pc \in {"cpu1", "cpu2", "menu_cpu", "cm_cpu"}
    /\ Len(log) < MaxSession
    /\ \E src \in MainCpuSources : getCPUUsage(src)
    /\ pc' = AfterCall(pc, out')
    /\ UNCHANGED <<running, argv, hs>>

CallMem ==
    /\ InMain /\ pc \in {"mem1", "menu_mem", "cm_mem"}
    /\ Len(log) < MaxSession
    /\ getMemoryUsage
    /\ pc' = AfterCall(pc, out')
    /\ UNCHANGED <<running, argv, hs>>

CallProc ==
    /\ InMain /\ pc \in {"proc1", "menu_proc", "cm_proc"}
    /\ Len(log) < MaxSession
    /\ listTopProcesses
    /\ pc' = AfterCall(pc, out')
    /\ UNCHANGED <<running, argv, hs>>

\* sleep(1) of -m cpu and sleep(interval) of the continuous loop
Sleep ==
    /\ InMain /\ pc \in {"sleep1", "cm_sleep"}
    /\ pc' = IF pc = "sleep1" THEN "cpu2" ELSE "cm_test"
    /\ UNCHANGED <<logFile, log, out, running, argv, hs>>
    /\ UNCHANGED core_vars

\* displayMenu, line 543: the loop test, and the menu when it passes
MenuTest ==
    /\ InMain /\ pc = "menu"
    /\ IF running # 0
       THEN /\ out' = Printed("Enter your choice: ", ZeroPct)
            /\ pc' = "prompt"
       ELSE /\ out' = out
            /\ pc' = "end"
    /\ UNCHANGED <<logFile, log, running, argv, hs>>
    /\ UNCHANGED core_vars

\* what scanf("%d") makes of the input: one number converted, none (0), or
\* none with the input at its end (-1), and whether the input left behind a
\* failed conversion holds a newline
Choices ==
    { [converted |-> 1, choice |-> c, newline |-> TRUE] : c \in 0..6 }
    \cup { [converted |-> 0, choice |-> 0, newline |-> b] : b \in BOOLEAN }
    \cup { [converted |-> -1, choice |-> 0, newline |-> FALSE] }

\* displayMenu, lines 552-579
MenuChoice(input) ==
    /\ InMain /\ pc = "prompt"
    /\ UNCHANGED <<logFile, argv, hs>>
    /\ UNCHANGED core_vars
    /\ CASE input.converted # 1 ->
              /\ out' = Printed("Invalid input. Please enter a number.", ZeroPct)
              /\ pc' = IF input.newline THEN "discard" ELSE "discard_eof"
              /\ UNCHANGED <<log, running>>
         [] input.choice = 1 -> pc' = "menu_cpu"  /\ UNCHANGED <<out, log, running>>
         [] input.choice = 2 -> pc' = "menu_mem"  /\ UNCHANGED <<out, log, running>>
         [] input.choice = 3 -> pc' = "menu_proc" /\ UNCHANGED <<out, log, running>>
         [] input.choice = 4 -> pc' = "cm_start"  /\ UNCHANGED <<out, log, running>>
         [] input.choice = 5 ->
              /\ running' = 0
              /\ log' = writeLog(log, logFile, "User exited from menu")
              /\ out' = Printed("Exiting...", ZeroPct)
              /\ pc' = "menu"
         [] OTHER ->
              /\ out' = Printed("Invalid choice. Please select 1-5.", ZeroPct)
              /\ pc' = "menu"
              /\ UNCHANGED <<log, running>>

\* what getchar returns to the loop of line 554: the characters of the line
\* up to its newline, or EOF, again at every call, once the input has ended
getchar(at) == IF at = "discard" THEN LF ELSE "EOF"

\* displayMenu, line 554: characters are read and dropped until one of them
\* is a newline
MenuDiscard ==
    /\ InMain /\ pc \in {"discard", "discard_eof"}
    /\ pc' = IF getchar(pc) = LF THEN "menu" ELSE pc
    /\ UNCHANGED <<logFile, log, out, running, argv, hs>>
    /\ UNCHANGED core_vars

\* continuousMonitor, line 589
CmStart ==
    /\ InMain /\ pc = "cm_start"
    /\ log' = writeLog(log, logFile, "Continuous monitoring started")
    /\ pc' = "cm_test"
    /\ UNCHANGED <<logFile, out, running, argv, hs>>
    /\ UNCHANGED core_vars

\* continuousMonitor, lines 591-595 and 604: the loop test, then either the
\* head of the body or the statement after the loop and the return to the
\* caller
CmTest ==
    /\ InMain /\ pc = "cm_test"
    /\ IF running # 0
       THEN /\ out' = Printed("=== Continuous Monitoring ===", ZeroPct)
            /\ log' = log
            /\ pc' = "cm_cpu"
       ELSE /\ out' = out
            /\ log' = writeLog(log, logFile, "Continuous monitoring stopped")
            /\ pc' = IF argv = "menu" THEN "menu" ELSE "end"
    /\ UNCHANGED <<logFile, running, argv, hs>>
    /\ UNCHANGED core_vars

\* main, lines 665-666
End ==
    /\ InMain /\ pc = "end"
    /\ IF logFile # "NULL"
       THEN /\ log' = writeLog(log, logFile, "Session ended")
            /\ pc' = "end_close"
       ELSE /\ log' = log
            /\ pc' = "return"
    /\ UNCHANGED <<logFile, out, running, argv, hs>>
    /\ UNCHANGED core_vars

\* main, line 667: fclose frees the stream, the global keeps the pointer
EndClose ==
    /\ InMain /\ pc = "end_close"
    /\ logFile' = "closed"
    /\ pc' = "return"
    /\ UNCHANGED <<log, out, running, argv, hs>>
    /\ UNCHANGED core_vars

\* main, line 670
Return0 ==
    /\ InMain /\ pc = "return"
    /\ pc' = "done"
    /\ UNCHANGED <<logFile, log, out, running, argv, hs>>
    /\ UNCHANGED core_vars

\* the statements of handleSignal, in the order of the source
HandlerSteps == <<"running0", "printed", "received", "ended", "closed", "exited">>

\* the handler's position after its next statement
HandlerNext(h) ==
    CHOOSE n \in {HandlerSteps[i] : i \in 1..Len(HandlerSteps)} :
        \E i \in 1..(Len(HandlerSteps) - 1) :
            HandlerSteps[i] = h /\ HandlerSteps[i + 1] = n

\* SIGINT is delivered once the handler is installed; line 76
SigInt ==
    /\ InMain /\ pc # "start"
    /\ running' = 0
    /\ hs' = "running0"
    /\ UNCHANGED <<logFile, log, out, argv, pc>>
    /\ UNCHANGED core_vars

\* line 77
SigPrint ==
    /\ hs = "running0"
    /\ out' = Printed("Exiting... Saving log.", ZeroPct)
    /\ hs' = HandlerNext(hs)
    /\ UNCHANGED <<logFile, log, running, argv, pc>>
    /\ UNCHANGED core_vars

\* writeLog called by the handler: with the stream closed by main the
\* pointer is not NULL and fprintf uses a freed stream, which may add the
\* entry, add nothing, or end the process
HandlerLog(message) ==
    /\ UNCHANGED <<logFile, out, running, argv>>
    /\ UNCHANGED core_vars
    /\ IF logFile = "closed"
       THEN \/ log' = Append(log, message) /\ hs' = HandlerNext(hs) /\ pc' = pc
            \/ log' = log /\ hs' = HandlerNext(hs) /\ pc' = pc
            \/ log' = log /\ hs' = "crashed" /\ pc' = "crashed"
       ELSE /\ log' = writeLog(log, logFile, message)
            /\ hs' = HandlerNext(hs)
            /\ pc' = pc

\* line 78
SigLog1 == hs = "printed" /\ HandlerLog("SIGINT received")

\* line 79
SigLog2 == hs = "received" /\ HandlerLog("Session ended")

\* lines 81-83: a second fclose of the stream main closed may return or
\* abort
SigClose ==
    /\ hs = "ended"
    /\ UNCHANGED <<log, out, running, argv>>
    /\ UNCHANGED core_vars
    /\ CASE logFile = "NULL" ->
              logFile' = logFile /\ hs' = HandlerNext(hs) /\ pc' = pc
         [] logFile = "open" ->
              logFile' = "closed" /\ hs' = HandlerNext(hs) /\ pc' = pc
         [] OTHER ->
              \/ logFile' = logFile /\ hs' = HandlerNext(hs) /\ pc' = pc
              \/ logFile' = logFile /\ hs' = "crashed" /\ pc' = "crashed"

\* line 85: exit(0)
SigExit ==
    /\ hs = "closed"
    /\ hs' = HandlerNext(hs)
    /\ pc' = "exited"
    /\ UNCHANGED <<logFile, log, out, running, argv>>
    /\ UNCHANGED core_vars

\* what the driver finds in /proc
MainMemFiles ==
    { MemFile(TRUE, TRUE, 3000, 1024, FALSE), MemFile(TRUE, TRUE, 1024, -1, FALSE),
      MemFile(FALSE, FALSE, -1, -1, FALSE) }

MainProcTables ==
    { [opendir |-> FALSE, listing |-> <<>>],
      [opendir |-> TRUE, listing |-> <<>>],
      [opendir |-> TRUE, listing |-> <<"vanished">>],
      [opendir |-> TRUE, listing |-> <<"busy50", "noparen">>] }

\* the process when main is entered
InitMain ==
    /\ prev = ZeroSnapshot
    /\ first_run = 1
    /\ logFile = "NULL"
    /\ log = <<>>
    /\ out = Printed("nothing", ZeroPct)
    /\ cpu_src = File(FALSE, FALSE, FALSE, <<>>)
    /\ call = NoCall
    /\ rec_ret = NotRead
    /\ census = NoCensus
    /\ pass = NoPass
    /\ mem_use = NoMem
    /\ running = 1
    /\ hs = "none"
    /\ pc = "start"
    /\ argv \in Modes
    /\ stat = ZeroSnapshot
    /\ rec = CHOOSE r \in StatRecords : ~r.open
    /\ proc \in MainProcTables
    /\ meminfo \in MainMemFiles

NextMain ==
    \/ Install
    \/ Fopen
    \/ Message
    \/ CallCpu
    \/ CallMem
    \/ CallProc
    \/ Sleep
    \/ MenuTest
    \/ \E input \in Choices : MenuChoice(input)
    \/ MenuDiscard
    \/ CmStart
    \/ CmTest
    \/ End
    \/ EndClose
    \/ Return0
    \/ SigInt
    \/ SigPrint
    \/ SigLog1
    \/ SigLog2
    \/ SigClose
    \/ SigExit

SpecMain == InitMain /\ [][NextMain]_vars

\* a run in which no SIGINT is delivered: main is one sequential thread, and
\* its next statement is executed whenever there is one
NextQuiet ==
    \/ Install
    \/ Fopen
    \/ Message
    \/ CallCpu
    \/ CallMem
    \/ CallProc
    \/ Sleep
    \/ MenuTest
    \/ \E input \in Choices : MenuChoice(input)
    \/ MenuDiscard
    \/ CmStart
    \/ CmTest
    \/ End
    \/ EndClose
    \/ Return0

\* the values of pc
Positions ==
    {"start", "fopen", "menu", "prompt", "discard", "discard_eof", "menu_cpu",
     "menu_mem", "menu_proc", "help", "badmode", "badinterval", "invalid", "cpu1", "sleep1",
     "cpu2", "mem1", "proc1", "cm_start", "cm_test", "cm_cpu", "cm_mem",
     "cm_proc", "cm_sleep", "end", "end_close", "return", "done", "exited",
     "crashed"}

\* main has a next statement that the model lets it execute
CanStep ==
    /\ InMain
    /\ pc # "discard_eof"
    /\ pc \in {"cpu1", "cpu2", "mem1", "proc1", "menu_cpu", "menu_mem",
               "menu_proc", "cm_cpu", "cm_mem", "cm_proc"}
          => Len(log) < MaxSession

\* main moves to another statement.  Every step of NextQuiet changes pc,
\* except the one of MenuDiscard at "discard_eof", which changes nothing, and
\* NextQuiet has a step that changes pc exactly when CanStep holds, so weak
\* fairness of Advance is weak fairness of NextQuiet
Advance == CanStep /\ pc' \in Positions /\ pc' # pc

SpecQuiet == InitMain /\ [][NextQuiet]_vars /\ WF_pc(Advance)

(***************************************************************************)
(* The CPU sampler's claims, under SpecCpu.                                *)
(***************************************************************************)

\* C1: the first call of calculateCPUUsage since process start returns the
\* warmup signal -1.0, which getCPUUsage shows as "Initializing CPU
\* monitoring" and not as a percentage, and it stores the snapshot it was
\* given as the retained previous snapshot.
C1_FirstCallWarmsUp ==
    (call.made /\ call.n = 1) =>
        /\ call.ret = MinusOne
        /\ out.kind = "Initializing CPU monitoring"
        /\ prev = call.curr
        /\ first_run = 0

C1_Witness ==
    /\ call.made /\ call.n = 1
    /\ call.curr.idle = 1 /\ call.curr.user = 1
    /\ prev = call.curr

\* C2: after every call of calculateCPUUsage the retained previous snapshot
\* equals the snapshot passed to that call.
C2_PrevIsSnapshotPassed ==
    call.made => prev = call.curr

\* C3: when no counter of the snapshot passed to a call is lower than in the
\* snapshot passed to the call before, the percentage returned lies in
\* [0.0, 100.0], is exactly 0.0 when the whole difference is idle time and
\* exactly 100.0 when the idle difference is 0 and the total is positive.
C3_ConsecutivePairInRange ==
    (call.made /\ call.n > 1 /\ call.since.mono) =>
        /\ DInPercentRange(call.ret)
        /\ (call.since.total = call.since.idle => DIsZero(call.ret))
        /\ (call.since.idle = 0 /\ call.since.total > 0 => DIsHundred(call.ret))

\* C4: a call after warmup with a snapshot identical to the retained previous
\* snapshot returns exactly 0.0, and getCPUUsage reports it as a percentage.
C4_IdenticalSnapshotIsZero ==
    (call.made /\ call.n > 1 /\ call.curr = call.before) =>
        /\ call.ret = ZeroPct
        /\ out = Printed("CPU Usage", ZeroPct)
        /\ log[Len(log)] = "CPU Usage"

C4_Witness ==
    /\ call.made /\ call.n > 1
    /\ call.curr = call.before
    /\ call.curr.idle = 1 /\ call.curr.system = 1
    /\ out.kind = "CPU Usage"

\* the sources C5 is about: the file cannot be opened or read, the aggregate
\* line is absent, or fewer than seven integers follow its tag
FailingSource(f) == ~f.open \/ ~f.read \/ ~f.line \/ Len(f.ints) < 7

\* C5: a getCPUUsage call that finds such a source does not call
\* calculateCPUUsage: the retained snapshot and first_run stay as they were,
\* nothing is logged and neither a percentage nor warmup is reported.
C5_FailureSkipsDerive ==
    [][ (stat' = stat /\ FailingSource(cpu_src')) =>
            /\ prev' = prev
            /\ first_run' = first_run
            /\ log' = log
            /\ ~call'.made
            /\ out'.kind = "error" ]_vars

C5_Witness ==
    /\ cpu_src.open /\ cpu_src.read /\ cpu_src.line /\ Len(cpu_src.ints) = 6
    /\ out.kind = "error"
    /\ ~call.made
    /\ first_run = 0
    /\ prev.user = 1
    /\ Len(log) = 1

(***************************************************************************)
(* readProcessStat's claims, under SpecStat.                               *)
(***************************************************************************)
HasSpaceOrParen(comm) ==
    \E i \in 1..Len(comm) : comm[i] = " " \/ comm[i] = ")" \/ comm[i] = "("

\* C6: for a whole record whose name holds spaces or parentheses,
\* readProcessStat succeeds and returns field 14 as utime and field 15 as
\* stime, as it does for a name without them.
C6_NameWithParensParsed ==
    (rec_ret # NotRead /\ WholeRecord(rec) /\ HasSpaceOrParen(rec.comm)) =>
        /\ rec_ret.rc = 0
        /\ rec_ret.utime = rec.utime
        /\ rec_ret.stime = rec.stime

\* the length of the record up to the space before field 14: a text cut
\* there or earlier holds no digit of utime
LenBeforeUtime(r) ==
    Len(Digits(42) \o <<" ", "(">> \o r.comm \o <<")">>
        \o Joined(SubSeq(FieldsOf(r.utime, r.stime), 1, 11))) + 1

FieldsMissing(r) == r.open /\ r.read /\ r.cut > 0 /\ r.cut <= LenBeforeUtime(r)

\* C23: for every record text read, whatever its length, the parse pointer
\* is never moved past the NUL that ends the text, and a text in which
\* fields 14 and 15 are missing is rejected with -1.
C23_ParseStaysInText ==
    rec_ret # NotRead
        => /\ ~rec_ret.over
           /\ FieldsMissing(rec) => rec_ret.rc = -1

(***************************************************************************)
(* The census's claims, under SpecCensus.  What a pass must find is stated *)
(* from the kinds of the entries, not from what the parser returns.        *)
(***************************************************************************)
\* the kinds whose stat record is whole and readable
Alive(k) == k \in {"busy10", "busy50", "idle", "busy30", "crowd", "hog"}

\* the kinds whose stat read fails: the file cannot be opened or read, has no
\* closing parenthesis, or has fewer than 15 fields
Failing(k) == k \in {"vanished", "unreadable", "noparen", "short"}

Survivors == { i \in 1..Len(proc.listing) : Alive(proc.listing[i]) }

TotalAt(i) == TicksAt(i, proc.listing[i]).utime + TicksAt(i, proc.listing[i]).stime

TopTotal == CHOOSE t \in { TotalAt(i) : i \in Survivors } :
                \A i \in Survivors : TotalAt(i) <= t

\* the double d has the value n / m, m > 0
DIsQuotient(d, n, m) == d.big = 0 /\ d.den > 0 /\ d.num * m = n * d.den

C8_RankedAndTruncated ==
    (census.made /\ proc.opendir) =>
        /\ census.display_count =
               IF Cardinality(Survivors) < 5 THEN Cardinality(Survivors) ELSE 5
        /\ Len(census.shown) = census.display_count
        /\ \A i \in Survivors :
               \E j \in 1..Len(census.processes) : census.processes[j].pid = PidAt(i)
        /\ \A i \in 1..census.display_count :
               /\ census.shown[i].pid = census.processes[i].pid
               /\ census.shown[i].total_time = census.processes[i].total_time
               /\ \A j \in (i + 1)..Len(census.processes) :
                      census.processes[i].total_time >= census.processes[j].total_time

\* six survivors of unequal totals: five displayed, one left out
C8_Witness ==
    /\ census.made
    /\ census.process_count = 6
    /\ Len(census.shown) = 5
    /\ census.shown[1].total_time > census.shown[5].total_time
    /\ census.shown[5].total_time > census.processes[6].total_time

C10_TopIsHundred ==
    (census.made /\ census.process_count > 0) =>
        /\ DIsHundred(census.processes[1].cpu_percent)
        /\ census.shown[1].percent = 10000

\* C11: a pass without a surviving record prints and logs 'No processes
\* found' and neither sorts nor computes percentages; and no pass divides by
\* zero in the percentage step.
C11_EmptyCensusAndNoZeroDivisor ==
    census.made =>
        /\ (proc.opendir /\ Survivors = {}) =>
               /\ out.kind = "No processes found."
               /\ log = <<"No processes found">>
               /\ ~census.sorted
               /\ census.divisors = {}
               /\ census.process_count = 0
               /\ census.shown = <<>>
        /\ 0 \notin census.divisors

\* /proc lists entries, none of which yields a record
C11_Witness ==
    /\ census.made /\ proc.opendir
    /\ Len(proc.listing) >= 2
    /\ Survivors = {}
    /\ out.kind = "No processes found."

(***************************************************************************)
(* The census of a crowded /proc, under SpecCrowd.                         *)
(***************************************************************************)
\* C12: a finished pass has ranked every entry with a numeric name whose stat
\* read succeeds, however many there are, and no process left out has a
\* total_time above that of a process displayed.
C12_EveryProcessRanked ==
    (pass.pc = "done" /\ proc.opendir) =>
        /\ \A i \in Survivors :
               \E j \in 1..Len(census.processes) : census.processes[j].pid = PidAt(i)
        /\ \A i \in Survivors :
               \A j \in 1..Len(census.shown) :
                   (\A k \in 1..Len(census.shown) : census.shown[k].pid # PidAt(i))
                       => census.shown[j].total_time >= TotalAt(i)

(***************************************************************************)
(* The memory sampler's claims, under SpecMem.                             *)
(***************************************************************************)
RECURSIVE GCD(_, _)
GCD(a, b) == IF b = 0 THEN a ELSE GCD(b, a % b)

\* n / m in lowest terms, m > 0
Lowest(n, m) ==
    LET g == GCD(IF n < 0 THEN 0 - n ELSE n, m)
    IN  <<n \div g, m \div g>>

\* the double d has the value n / m, m > 0 (compared in lowest terms)
DEqualsQuotient(d, n, m) ==
    d.big = 0 /\ d.den > 0 /\ Lowest(d.num, d.den) = Lowest(n, m)

\* the value read for a line: 0 when the line is missing
KBOf(kB) == IF kB < 0 THEN 0 ELSE kB

ExpectedTotalMB == KBOf(meminfo.total) \div 1024
ExpectedFreeMB  == KBOf(meminfo.free) \div 1024

\* C13: for every MemTotal and MemFree in kB, total_mb = MemTotal div 1024,
\* free_mb = MemFree div 1024, used_mb = total_mb - free_mb and percentage =
\* 100 * used_mb / total_mb, or 0.0 without a division when total_mb is 0;
\* 16777216 kB and 8388608 kB give 16384, 8192, 8192 and 50.0.
C13_MemoryArithmetic ==
    (mem_use.made /\ ~mem_use.failed /\ meminfo.total >= 0 /\ meminfo.free >= 0) =>
        /\ mem_use.total_mb = ExpectedTotalMB
        /\ mem_use.free_mb = ExpectedFreeMB
        /\ mem_use.used_mb = ExpectedTotalMB - ExpectedFreeMB
        /\ IF ExpectedTotalMB = 0
           THEN DIsZero(mem_use.percent) /\ mem_use.divisors = {} /\ mem_use.tenths = 0
           ELSE /\ DEqualsQuotient(mem_use.percent,
                                   100 * (ExpectedTotalMB - ExpectedFreeMB),
                                   ExpectedTotalMB)
                /\ mem_use.divisors = { ExpectedTotalMB }
        /\ (meminfo.total = 16777216 /\ meminfo.free = 8388608) =>
               /\ mem_use.total_mb = 16384 /\ mem_use.free_mb = 8192 /\ mem_use.used_mb = 8192
               /\ mem_use.tenths = 500

C13_Witness ==
    /\ mem_use.made /\ ~mem_use.failed
    /\ meminfo.total = 16777216 /\ meminfo.free = 8388608
    /\ mem_use.total_mb = 16384 /\ mem_use.used_mb = 8192 /\ mem_use.tenths = 500

\* C14, as stated: for every blob with a MemTotal line and no MemFree line
\* the call completes and reports free_mb = 0, used_mb = total_mb and 100.0%.
C14_MissingFreeIsHundred ==
    (mem_use.made /\ meminfo.open /\ meminfo.read
                  /\ meminfo.total >= 0 /\ meminfo.free < 0) =>
        /\ ~mem_use.failed
        /\ mem_use.free_mb = 0
        /\ mem_use.used_mb = mem_use.total_mb
        /\ DIsHundred(mem_use.percent)

\* C14, amended: for every blob with a MemTotal line and no MemFree line the
\* call completes and reports free_mb = 0 and used_mb = total_mb =
\* MemTotal div 1024, with 100.0% when total_mb > 0 and 0.0% when total_mb = 0.
C14_MissingFreeIsAllUsed ==
    (mem_use.made /\ meminfo.open /\ meminfo.read
                  /\ meminfo.total >= 0 /\ meminfo.free < 0) =>
        /\ ~mem_use.failed
        /\ out.kind = "Memory Usage"
        /\ mem_use.total_mb = ExpectedTotalMB
        /\ mem_use.free_mb = 0
        /\ mem_use.used_mb = mem_use.total_mb
        /\ IF ExpectedTotalMB > 0
           THEN DIsHundred(mem_use.percent) /\ mem_use.tenths = 1000
           ELSE DIsZero(mem_use.percent) /\ mem_use.tenths = 0

\* a blob without MemFree whose MemTotal is a whole number of megabytes
C14_Witness ==
    /\ mem_use.made /\ ~mem_use.failed
    /\ meminfo.total = 3000 /\ meminfo.free < 0
    /\ mem_use.free_mb = 0 /\ mem_use.used_mb = 2 /\ mem_use.tenths = 1000

(***************************************************************************)
(* The driver's claims, under SpecMain.                                    *)
(***************************************************************************)
\* the statements from which main calls a sampler
CallSites ==
    {"cpu1", "cpu2", "mem1", "proc1", "menu_cpu", "menu_mem", "menu_proc",
     "cm_cpu", "cm_mem", "cm_proc"}

\* the step is a sampler call that returned to main
SamplerStep == hs = "none" /\ hs' = "none" /\ pc \in CallSites /\ pc' # pc

\* C15: a sampler call that fails (source not opened or not read, malformed
\* record, empty census) is followed by the driver step that follows a call
\* that succeeds: the next sampler, the sleep of the loop, the menu loop or
\* the end of main; and the process leaves by exit() only from the last
\* statement of the SIGINT handler.
C15_FailureReturnsToDriver ==
    [][ /\ (SamplerStep /\ out'.kind \in FailureKinds)
            => /\ pc' = AfterCall(pc, Printed("CPU Usage", ZeroPct))
               /\ pc' \in {"sleep1", "cm_mem", "cm_proc", "cm_sleep", "menu", "end"}
        /\ (pc' = "exited" /\ pc # "exited") => hs = "closed" /\ hs' = "exited"
      ]_vars

\* the CPU sampler failed in the continuous loop and the memory sampler is next
C15_Witness ==
    /\ pc = "cm_mem" /\ hs = "none"
    /\ out.kind = "error"
    /\ logFile = "open"

\* the handler completes a statement
HandlerStep == hs' # hs

\* C16: on SIGINT the handler sets running to 0, writes 'SIGINT received',
\* writes 'Session ended', closes the log file and exits the process, in this
\* order (the two entries and the close when the program has a log file),
\* and after 'Session ended' nothing more is printed or logged.
C16_HandlerSequence ==
    [][ /\ (HandlerStep /\ hs = "none") => hs' = "running0" /\ running' = 0
        /\ (HandlerStep /\ hs = "running0") => hs' = "printed" /\ log' = log
        /\ (HandlerStep /\ hs = "printed")
              => /\ hs' = "received"
                 /\ logFile # "NULL" => log' = Append(log, "SIGINT received")
        /\ (HandlerStep /\ hs = "received")
              => /\ hs' = "ended"
                 /\ logFile # "NULL" => log' = Append(log, "Session ended")
        /\ (HandlerStep /\ hs = "ended")
              => /\ hs' = "closed"
                 /\ logFile # "NULL" => logFile' = "closed"
        /\ (HandlerStep /\ hs = "closed") => hs' = "exited" /\ pc' = "exited"
        /\ hs \in {"ended", "closed", "exited"} => log' = log /\ out' = out
      ]_vars

\* the entry `first` is in the log and the entry `second` comes after it
Follows(first, second) ==
    \E i \in 1..Len(log) : \E j \in (i + 1)..Len(log) :
        log[i] = first /\ log[j] = second

\* the process has ended, by return from main or by exit()
Ended == pc \in {"done", "exited"}

\* main, or the function it called, completes a statement
MainStep == hs = "none" /\ hs' = "none" /\ pc' # pc

\* C17: the continuous loop runs while running is 1; an iteration calls the
\* CPU sampler, the memory sampler and the census and then sleeps; with
\* running 0 no iteration starts; and a run that logged 'Continuous
\* monitoring started' has logged 'Continuous monitoring stopped' after it
\* when it has ended.
C17_ContinuousLoop ==
    /\ [][ /\ (MainStep /\ pc = "cm_test")
                 => (running = 1 <=> pc' = "cm_cpu")
           /\ (MainStep /\ pc' = "cm_cpu") => pc = "cm_test" /\ running = 1
           /\ (MainStep /\ pc = "cm_cpu") => pc' = "cm_mem"
           /\ (MainStep /\ pc = "cm_mem") => pc' = "cm_proc"
           /\ (MainStep /\ pc = "cm_proc") => pc' = "cm_sleep"
           /\ (MainStep /\ pc = "cm_sleep") => pc' = "cm_test"
         ]_vars
    /\ [](Ended /\ (\E i \in 1..Len(log) : log[i] = "Continuous monitoring started")
             => Follows("Continuous monitoring started",
                        "Continuous monitoring stopped"))

\* the menu is on the screen again, or the session has reached the length
\* at which the model stops calling samplers
MenuAgain == pc = "prompt" \/ Len(log) >= MaxSession

\* C18: in a run without SIGINT, after choice 1, 2, 3 or 4 and after a number
\* out of range the menu is displayed again; choice 5 sets running to 0 and
\* logs 'User exited from menu', the loop ends, and main writes 'Session
\* ended' and returns.
C18_MenuLoop ==
    /\ (pc \in {"menu_cpu", "menu_mem", "menu_proc"}) ~> MenuAgain
    /\ (pc = "cm_start" /\ argv = "menu") ~> MenuAgain
    /\ (pc = "menu" /\ running = 1) ~> MenuAgain
    /\ [][ (pc = "prompt" /\ pc' = "menu" /\ running' = 0)
             => log' = writeLog(log, logFile, "User exited from menu") ]_vars
    /\ (pc = "menu" /\ running = 0)
         ~> (pc = "done" /\ (logFile # "NULL" => log[Len(log)] = "Session ended"))

\* fopen has been called and returned NULL
OpenFailed == pc \notin {"start", "fopen"} /\ logFile = "NULL"

\* C19: when syslog.txt cannot be opened the program displays an error and
\* exits: main goes from the failed fopen to its end, and no sampler and no
\* mode is run.
C19_LogOpenFailureExits ==
    OpenFailed
        => /\ pc \in {"end", "return", "done", "exited"}
           /\ ~mem_use.made /\ ~census.made /\ call.n = 0

\* the step calls writeLog or fclose with logFile not NULL: the two writeLog
\* calls and the fclose of the handler, the fclose of main
UsesStream ==
    /\ logFile # "NULL"
    /\ \/ HandlerStep /\ hs \in {"printed", "received", "ended"}
       \/ MainStep /\ pc = "end_close"

\* C21: wherever SIGINT is delivered, the log file is closed once and no
\* writeLog writes to it after it has been closed: every fprintf and every
\* fclose on logFile finds the stream open.
C21_ClosedOnceNoWriteAfter ==
    [][ UsesStream => logFile = "open" ]_vars

\* how many entries of the log are `entry`
Count(entry) == Cardinality({ i \in 1..Len(log) : log[i] = entry })

\* C22: a run whose log file opened and that has ended, by return from main
\* or by exit() in the handler, has written entries that start with 'Session
\* started' and hold 'Session ended' once, as the last entry.
C22_SessionBracketed ==
    (Ended /\ logFile # "NULL")
        => /\ Len(log) >= 2
           /\ log[1] = "Session started"
           /\ log[Len(log)] = "Session ended"
           /\ Count("Session ended") = 1

\* displayMenu is in the loop of line 554
Discarding == pc \in {"discard", "discard_eof"}

\* C24: in a run without SIGINT, after an input that is not a number the
\* discarding of the pending input ends, whether or not the input holds a
\* newline, and the menu prompt is shown again or the menu loop is left.
C24_DiscardEnds ==
    Discarding ~> (pc \in {"prompt", "end"})

(***************************************************************************)
(* The warmup claim, under SpecCpu.                                        *)
(***************************************************************************)
\* C20: a call of getCPUUsage that parses its snapshot, and is not the
\* first such call of the process, reports a percentage and not the warmup.
C20_WarmupAtMostOnce ==
    (call.made /\ call.n >= 2) => out.kind = "CPU Usage"

=============================================================================
